---- MODULE Spec2Model ----
(***************************************************************************)
(* Communicator reference counting (MPIR_Comm_release) and the             *)
(* asynchronous progress-thread manager (progress_fn,                      *)
(* MPIDI_parse_progress_thread_affinity, MPIR_Init_async_thread,           *)
(* MPIR_Finalize_async_thread, MPII_init_async, MPII_finalize_async) of    *)
(* src/include/mpir_comm.h.                                                *)
(***************************************************************************)
EXTENDS Integers, Sequences, FiniteSets, TLC

(***************************************************************************)
(* Bounds of the model.                                                    *)
(***************************************************************************)
\* longest affinity string explored
MaxLen == 3
\* largest communicator size (world and node communicator)
MaxSize == 2
\* largest number of logical processors reported by MPL_get_nprocs
MaxProcs == 2
\* number of worker threads the model lets MPID_Thread_create spawn
MaxWorkers == 2
\* number of threads sharing one communicator in the reference-count model
NThreads == 2
\* largest reference count explored
MaxRef == 3
\* largest number of nodes in a mapper chain
MaxMap == 2
\* largest count kept of the progress tests begun after the stop flag was set
MaxLateTests == 2

(***************************************************************************)
(* C strings.  A char* is either NULL or a sequence of characters.         *)
(***************************************************************************)
NullStr == [isnull |-> TRUE, s |-> <<>>]
CStr(s) == [isnull |-> FALSE, s |-> s]

\* the characters the explored affinity strings are built from
Alphabet == {"0", "1", "-", "x", ","}

RECURSIVE StringsUpTo(_)
StringsUpTo(n) ==
    IF n = 0 THEN {<<>>}
    ELSE LET shorter == StringsUpTo(n - 1)
         IN  shorter \cup {Append(s, c) : s \in {t \in shorter : Len(t) = n - 1},
                                           c \in Alphabet}

\* strlen(str) == 0 on a non-NULL string
strlen(str) == Len(str.s)

Digits == {"0", "1", "2", "3", "4", "5", "6", "7", "8", "9"}
DigitVal(c) ==
    CASE c = "0" -> 0 [] c = "1" -> 1 [] c = "2" -> 2 [] c = "3" -> 3
      [] c = "4" -> 4 [] c = "5" -> 5 [] c = "6" -> 6 [] c = "7" -> 7
      [] c = "8" -> 8 [] c = "9" -> 9

isspace(c) == c \in {" ", "\t", "\n", "\r"}

\* the digit run of atoi: accumulate while the next character is a digit
RECURSIVE atoi_digits(_, _, _)
atoi_digits(s, i, acc) ==
    IF i > Len(s) \/ s[i] \notin Digits THEN acc
    ELSE atoi_digits(s, i + 1, acc * 10 + DigitVal(s[i]))

RECURSIVE atoi_skip(_, _)
atoi_skip(s, i) == IF i <= Len(s) /\ isspace(s[i]) THEN atoi_skip(s, i + 1) ELSE i

\* atoi(3): optional white space, optional sign, then the longest run of
\* digits; 0 when there is no digit at all
atoi(s) ==
    LET i == atoi_skip(s, 1)
    IN  IF i <= Len(s) /\ s[i] = "-" THEN 0 - atoi_digits(s, i + 1, 0)
        ELSE IF i <= Len(s) /\ s[i] = "+" THEN atoi_digits(s, i + 1, 0)
        ELSE atoi_digits(s, i, 0)

\* the delimiter string " \n\t," handed to MPL_strsep
Delims == {" ", "\n", "\t", ","}

\* index of the first delimiter of s at or after i, 0 if there is none
RECURSIVE FirstDelim(_, _)
FirstDelim(s, i) ==
    IF i > Len(s) THEN 0
    ELSE IF s[i] \in Delims THEN i
    ELSE FirstDelim(s, i + 1)

\* MPL_strsep(&tmp, delims): the token up to the first delimiter and the new
\* value of tmp (NULL once the string is used up)
MPL_strsep(tmp) ==
    IF tmp.isnull THEN [tok |-> NullStr, rest |-> NullStr]
    ELSE LET k == FirstDelim(tmp.s, 1)
         IN  IF k = 0 THEN [tok |-> CStr(tmp.s), rest |-> NullStr]
             ELSE [tok |-> CStr(SubSeq(tmp.s, 1, k - 1)),
                   rest |-> CStr(SubSeq(tmp.s, k + 1, Len(tmp.s)))]

(***************************************************************************)
(* State.                                                                  *)
(***************************************************************************)
VARIABLES
    \* build and run-time configuration
    MPICH_IS_THREADED,                      \* the threaded MPI_THREAD_MULTIPLE build
    MPIR_CVAR_ASYNC_PROGRESS,
    MPIR_CVAR_CH4_PROGRESS_THREAD_AFFINITY,
    MPIR_CVAR_NUM_CLIQUES,
    MPIR_CVAR_ODD_EVEN_CLIQUES,
    thread_provided,                        \* MPIR_ThreadInfo.thread_provided
    comm_world,                             \* MPIR_Process.comm_world
    nprocs,                                 \* MPL_get_nprocs()
    \* async progress-thread manager
    MPIR_async_thread_initialized,
    progress_thread_id,                     \* 0 until a thread was created
    async_done,
    workers,                                \* position of each worker in progress_fn
    pinned,                                 \* processor the newest worker is pinned to, -1 if none
    parsed,                                 \* result of the last affinity parse: its
                                            \* return value and the slots it wrote
    tests_after_stop,                       \* calls of MPID_Progress_test each worker began
                                            \* with the stop flag set, where they are counted
    cs_owner,                               \* holder of the global critical section
    mainpc,                                 \* position of the thread calling init/finalize
    lastcall,                               \* the last manager entry point called
    init_called,                            \* MPII_init_async was called at least once
    mpi_errno,                              \* what that call returned
    apppc,                                  \* an application thread using the global lock
    \* communicator reference counting
    ref_count,
    held,                                   \* references each thread owns
    relpc,                                  \* position of each thread in MPIR_Comm_release
    in_use,                                 \* the local in_use of each running release
    deleted,                                \* calls of MPIR_Comm_delete_internal so far
    del_errno,                              \* what its last call returned, "none" before
    rel_errno,                              \* what each thread's last MPIR_Comm_release returned
    \* the mapper chain of one communicator under construction
    mapper_head,                            \* 0 is the null pointer
    mapper_tail,
    map_nodes,                              \* the MPIR_Comm_map_t objects by address
    comm_phase,                             \* "created" until the commit, then "committed"
    \* the hint registry and the hints of one communicator
    MPIR_comm_hint_list,                    \* the registered keys by index
    hints,                                  \* comm->hints
    hint_writer,                            \* who stored each value of comm->hints last
    hint_phase,                             \* "registering" until the communicator exists
    set_call                                \* the last call that set a hint and its result

cfgvars == <<MPICH_IS_THREADED, MPIR_CVAR_ASYNC_PROGRESS,
             MPIR_CVAR_CH4_PROGRESS_THREAD_AFFINITY, MPIR_CVAR_NUM_CLIQUES,
             MPIR_CVAR_ODD_EVEN_CLIQUES, thread_provided, comm_world, nprocs>>
asyncvars == <<MPIR_async_thread_initialized, progress_thread_id, async_done,
               workers, pinned, parsed, tests_after_stop, cs_owner, mainpc, lastcall,
               init_called, mpi_errno, apppc>>
refvars == <<ref_count, held, relpc, in_use, deleted, del_errno, rel_errno>>
mapvars == <<mapper_head, mapper_tail, map_nodes, comm_phase>>
hintvars == <<MPIR_comm_hint_list, hints, hint_writer, hint_phase, set_call>>
vars == <<cfgvars, asyncvars, refvars, mapvars, hintvars>>

Workers == 1 .. MaxWorkers
Threads == 1 .. NThreads

\* holders of the global critical section other than the workers
Free == 0
App == 0 - 1

(***************************************************************************)
(* MPIDI_parse_progress_thread_affinity.                                   *)
(***************************************************************************)
\* the cvar is "given" when it is neither NULL nor the empty string
affinity_given(str) == ~str.isnull /\ strlen(str) > 0

\* the default affinity without the wrap of line 478: every slot counts down
\* from the highest processor id
RECURSIVE default_affinity_nowrap(_, _, _, _)
default_affinity_nowrap(th_idx, thread_affinity, threads_per_node, proc_count) ==
    IF th_idx >= threads_per_node THEN thread_affinity
    ELSE default_affinity_nowrap(th_idx + 1,
             Append(thread_affinity, proc_count - th_idx - 1),
             threads_per_node, proc_count)

\* lines 474-480: the default affinity, highest processor ids first,
\* wrapping round when there are more threads than processors
RECURSIVE default_affinity(_, _, _, _)
default_affinity(th_idx, thread_affinity, threads_per_node, proc_count) ==
    IF th_idx >= threads_per_node THEN thread_affinity
    ELSE default_affinity(th_idx + 1,
             Append(thread_affinity,
                    IF th_idx < proc_count
                    THEN proc_count - th_idx - 1
                    ELSE thread_affinity[(th_idx % proc_count) + 1]),
             threads_per_node, proc_count)

\* the length of the token taken for its value
proc_id_length(proc_id_str) == strlen(proc_id_str)

\* lines 492 and 499: the processor id a token stands for
proc_id(proc_id_str) == atoi(proc_id_str.s)

\* lines 489-508: one MPL_strsep token per thread slot
RECURSIVE parse_loop(_, _, _, _, _)
parse_loop(th_idx, tmp, thread_affinity, read_count, threads_per_node) ==
    IF th_idx >= threads_per_node
    THEN [mpi_errno |-> "MPI_SUCCESS", thread_affinity |-> thread_affinity,
          read_count |-> read_count]
    ELSE LET r == MPL_strsep(tmp)
             proc_id_str == r.tok
         IN  IF ~proc_id_str.isnull
             THEN IF proc_id(proc_id_str) < 0
                  THEN [mpi_errno |-> "MPI_ERR_OTHER",
                        thread_affinity |-> thread_affinity,
                        read_count |-> read_count]
                  ELSE parse_loop(th_idx + 1, r.rest,
                                  Append(thread_affinity, proc_id(proc_id_str)),
                                  read_count + 1, threads_per_node)
             ELSE [mpi_errno |-> "MPI_ERR_OTHER",
                   thread_affinity |-> thread_affinity,
                   read_count |-> read_count]

\* lines 463-530; slot th_idx of the C array is element th_idx + 1
MPIDI_parse_progress_thread_affinity(affinity_to_parse, threads_per_node, proc_count) ==
    IF affinity_to_parse.isnull \/ strlen(affinity_to_parse) = 0
    THEN [mpi_errno |-> "MPI_SUCCESS",
          thread_affinity |-> default_affinity(0, <<>>, threads_per_node, proc_count)]
    ELSE LET r == parse_loop(0, CStr(affinity_to_parse.s), <<>>, 0, threads_per_node)
         IN  IF r.mpi_errno # "MPI_SUCCESS"
             THEN [mpi_errno |-> r.mpi_errno, thread_affinity |-> r.thread_affinity]
             ELSE IF r.read_count < threads_per_node
             THEN [mpi_errno |-> "MPI_ERR_OTHER", thread_affinity |-> r.thread_affinity]
             ELSE [mpi_errno |-> "MPI_SUCCESS", thread_affinity |-> r.thread_affinity]

(***************************************************************************)
(* MPIR_Init_async_thread.                                                 *)
(***************************************************************************)
\* lines 544-548
num_cliques ==
    IF MPIR_CVAR_NUM_CLIQUES > 1 THEN MPIR_CVAR_NUM_CLIQUES
    ELSE IF MPIR_CVAR_ODD_EVEN_CLIQUES THEN 2
    ELSE 1

\* lines 556-558
global_rank == comm_world.rank
local_rank == IF comm_world.node_comm.present THEN comm_world.node_comm.rank ELSE 0

\* the table sized by the node communicator whatever the clique setting
local_size_of_node ==
    IF comm_world.node_comm.present THEN comm_world.node_comm.local_size
    ELSE 1

\* lines 559-568
local_size ==
    IF num_cliques > 1 THEN comm_world.local_size
    ELSE IF comm_world.node_comm.present THEN comm_world.node_comm.local_size
    ELSE 1

\* line 570
threads_per_node == local_size

\* the node-local rank used as index whatever the clique setting
affinity_idx_local == local_rank

\* lines 586-592
affinity_idx == IF num_cliques > 1 THEN global_rank ELSE local_rank

\* line 579 without the jump to fn_fail
parse_chk_skipped(errno) == FALSE

\* the check of line 595 applied whether or not an affinity string was given
affinity_chk_always(thr_err) == thr_err # 0

\* line 579: MPIR_ERR_CHKANDJUMP on the result of the parse
parse_chk(errno) == errno # "MPI_SUCCESS"
\* line 583: MPIR_ERR_CHKANDJUMP1 on the err of MPID_Thread_create
create_chk(err) == err # 0
\* lines 595-599: a failed pinning counts only with a user-supplied affinity
affinity_chk(thr_err) ==
    affinity_given(MPIR_CVAR_CH4_PROGRESS_THREAD_AFFINITY) /\ thr_err # 0

\* line 594: the int read from thread_affinity[idx].  The array comes from
\* MPL_malloc and its slots are written in order, so the sequence holds the
\* written slots and a slot past its end has an indeterminate value.
read_slot(thread_affinity, idx) ==
    IF idx < Len(thread_affinity) THEN {thread_affinity[idx + 1]}
    ELSE 0 .. (MaxProcs - 1)

\* the handle MPID_Thread_create gives the next thread
NewWorker == CHOOSE i \in Workers :
                 workers[i] = "none" /\ \A j \in Workers : j < i => workers[j] # "none"

\* lines 533-608.  err is what MPID_Thread_create reports, thr_err what
\* MPL_thread_set_affinity reports; mpi_errno' is the value returned.
MPIR_Init_async_thread(err, thr_err) ==
    LET p == MPIDI_parse_progress_thread_affinity(
                 MPIR_CVAR_CH4_PROGRESS_THREAD_AFFINITY, threads_per_node, nprocs)
    IN  /\ parsed' = p
        /\ \/ /\ parse_chk(p.mpi_errno)
              /\ err = 0 /\ thr_err = 0
              /\ mpi_errno' = p.mpi_errno
              /\ UNCHANGED <<workers, progress_thread_id, pinned>>
           \/ /\ ~parse_chk(p.mpi_errno)
              /\ create_chk(err)
              /\ thr_err = 0
              /\ mpi_errno' = "MPI_ERR_OTHER"
              /\ UNCHANGED <<workers, progress_thread_id, pinned>>
           \/ /\ ~parse_chk(p.mpi_errno)
              /\ ~create_chk(err)
              /\ \E i \in Workers : workers[i] = "none"
              /\ workers' = [workers EXCEPT ![NewWorker] = "enter"]
              /\ progress_thread_id' = NewWorker
              /\ IF thr_err = 0
                 THEN pinned' \in read_slot(p.thread_affinity, affinity_idx)
                 ELSE pinned' = 0 - 1
              /\ mpi_errno' = IF affinity_chk(thr_err) THEN "MPI_ERR_OTHER" ELSE "MPI_SUCCESS"

(***************************************************************************)
(* MPII_init_async and MPII_finalize_async.                                *)
(***************************************************************************)
\* line 631
async_requested == MPIR_CVAR_ASYNC_PROGRESS
\* line 632 without the test of the thread level
thread_level_any == TRUE

\* line 632
thread_level_ok == thread_provided = "MPI_THREAD_MULTIPLE"

\* a start-up that clears the stop flag
stop_flag_reset == IF async_done = 1 THEN 0 ELSE async_done

\* lines 627-646 never write the stop flag
stop_flag_after_init == async_done

\* lines 627-646, and the stub of lines 673-676 in a build without threads
MPII_init_async ==
    /\ mainpc = "idle"
    /\ lastcall' = "init"
    /\ init_called' = TRUE
    /\ async_done' = stop_flag_after_init
    /\ IF MPICH_IS_THREADED /\ async_requested /\ thread_level_ok
       THEN \E err \in {0, 1}, thr_err \in {0, 1} :
                /\ MPIR_Init_async_thread(err, thr_err)
                /\ MPIR_async_thread_initialized' =
                       IF mpi_errno' # "MPI_SUCCESS" THEN MPIR_async_thread_initialized
                       ELSE 1
       ELSE /\ mpi_errno' = "MPI_SUCCESS"
            /\ UNCHANGED <<MPIR_async_thread_initialized, progress_thread_id,
                           workers, pinned, parsed>>
    /\ UNCHANGED <<cfgvars, tests_after_stop, cs_owner, mainpc, apppc, refvars,
                   mapvars, hintvars>>

\* the stop flag set only inside the global critical section: the caller
\* must find the lock free to store the flag
MPII_finalize_async_locked ==
    /\ mainpc = "idle"
    /\ lastcall' = "finalize"
    /\ IF MPICH_IS_THREADED /\ MPIR_async_thread_initialized # 0
       THEN /\ cs_owner = Free
            /\ async_done' = 1
            /\ mainpc' = "join"
            /\ UNCHANGED mpi_errno
       ELSE /\ mpi_errno' = "MPI_SUCCESS"
            /\ UNCHANGED <<async_done, mainpc>>
    /\ UNCHANGED <<cfgvars, MPIR_async_thread_initialized, progress_thread_id,
                   workers, pinned, parsed, tests_after_stop, cs_owner, init_called, apppc,
                   refvars, mapvars, hintvars>>

\* lines 649-660 with lines 611-618 of MPIR_Finalize_async_thread: the
\* atomic store of the stop flag; the stub of lines 678-681 without threads
MPII_finalize_async ==
    /\ mainpc = "idle"
    /\ lastcall' = "finalize"
    /\ IF MPICH_IS_THREADED /\ MPIR_async_thread_initialized # 0
       THEN /\ async_done' = 1
            /\ mainpc' = "join"
            /\ UNCHANGED mpi_errno
       ELSE /\ mpi_errno' = "MPI_SUCCESS"
            /\ UNCHANGED <<async_done, mainpc>>
    /\ UNCHANGED <<cfgvars, MPIR_async_thread_initialized, progress_thread_id,
                   workers, pinned, parsed, tests_after_stop, cs_owner, init_called, apppc,
                   refvars, mapvars, hintvars>>

\* MPID_Thread_join giving up after a timeout: it may return while the thread
\* is still running.
MPID_Thread_join_timed ==
    /\ mainpc = "join"
    /\ \/ /\ workers[progress_thread_id] = "done"
          /\ workers' = [workers EXCEPT ![progress_thread_id] = "joined"]
       \/ /\ workers[progress_thread_id] # "done"
          /\ UNCHANGED workers
    /\ mainpc' = "idle"
    /\ mpi_errno' = "MPI_SUCCESS"
    /\ UNCHANGED <<cfgvars, MPIR_async_thread_initialized, progress_thread_id,
                   async_done, pinned, parsed, tests_after_stop, cs_owner, lastcall, init_called,
                   apppc, refvars, mapvars, hintvars>>

\* lines 619-623: MPID_Thread_join blocks until the thread has exited.
\* Joining a thread that was already joined is undefined: the call may
\* return at once or never return.
MPID_Thread_join ==
    /\ mainpc = "join"
    /\ \/ /\ workers[progress_thread_id] = "done"
          /\ workers' = [workers EXCEPT ![progress_thread_id] = "joined"]
          /\ mainpc' = "idle"
          /\ mpi_errno' = "MPI_SUCCESS"
       \/ /\ workers[progress_thread_id] = "joined"
          /\ UNCHANGED workers
          /\ \/ mainpc' = "idle" /\ mpi_errno' = "MPI_SUCCESS"
             \/ mainpc' = "hung" /\ UNCHANGED mpi_errno
    /\ UNCHANGED <<cfgvars, MPIR_async_thread_initialized, progress_thread_id,
                   async_done, pinned, parsed, tests_after_stop, cs_owner, lastcall, init_called,
                   apppc, refvars, mapvars, hintvars>>

(***************************************************************************)
(* The global critical section (MPID_THREAD_CS_ENTER / YIELD / EXIT on     *)
(* MPIR_THREAD_GLOBAL_ALLFUNC_MUTEX): one mutex, entered when free.         *)
(***************************************************************************)
CS_ENTER(t) == cs_owner = Free /\ cs_owner' = t
CS_EXIT(t) == cs_owner = t /\ cs_owner' = Free

(***************************************************************************)
(* progress_fn, lines 445-461, one action per statement.                   *)
(***************************************************************************)
WorkerFrame == <<cfgvars, MPIR_async_thread_initialized, progress_thread_id,
                 async_done, pinned, parsed, mainpc, lastcall, init_called,
                 mpi_errno, apppc, refvars, mapvars, hintvars>>
\* the statements other than MPID_Progress_test start no test
NoTest == UNCHANGED tests_after_stop

\* a worker that starts the progress engine without entering the section
progress_enter_nolock(i) ==
    /\ workers[i] = "enter"
    /\ workers' = [workers EXCEPT ![i] = "start"]
    /\ UNCHANGED <<WorkerFrame, cs_owner>>
    /\ NoTest

\* line 449
progress_enter(i) ==
    /\ workers[i] = "enter"
    /\ CS_ENTER(i)
    /\ workers' = [workers EXCEPT ![i] = "start"]
    /\ UNCHANGED WorkerFrame
    /\ NoTest

\* line 451
progress_start(i) ==
    /\ workers[i] = "start"
    /\ workers' = [workers EXCEPT ![i] = "check"]
    /\ UNCHANGED <<WorkerFrame, cs_owner>>
    /\ NoTest

\* a loop that never looks at the stop flag
loop_ignores_flag == TRUE

\* line 452: the loop condition
loop_continues == async_done = 0

progress_check(i) ==
    /\ workers[i] = "check"
    /\ workers' = [workers EXCEPT ![i] = IF loop_continues THEN "test" ELSE "end"]
    /\ UNCHANGED <<WorkerFrame, cs_owner>>
    /\ NoTest

\* line 453
progress_test(i) ==
    /\ workers[i] = "test"
    /\ workers' = [workers EXCEPT ![i] = "yield"]
    /\ UNCHANGED <<WorkerFrame, cs_owner>>
    /\ NoTest

\* line 453, observed: the same call, counted when it begins with the stop
\* flag already set; the count stops at MaxLateTests
progress_test_counted(i) ==
    /\ workers[i] = "test"
    /\ workers' = [workers EXCEPT ![i] = "yield"]
    /\ tests_after_stop' =
           IF async_done = 1 /\ tests_after_stop[i] < MaxLateTests
           THEN [tests_after_stop EXCEPT ![i] = @ + 1]
           ELSE tests_after_stop
    /\ UNCHANGED <<WorkerFrame, cs_owner>>

\* a loop that keeps the critical section across iterations
progress_keeps_lock(i) ==
    /\ workers[i] = "yield"
    /\ workers' = [workers EXCEPT ![i] = "check"]
    /\ UNCHANGED <<WorkerFrame, cs_owner>>
    /\ NoTest

\* line 454, first half of MPID_THREAD_CS_YIELD: leave the section
progress_yield(i) ==
    /\ workers[i] = "yield"
    /\ CS_EXIT(i)
    /\ workers' = [workers EXCEPT ![i] = "reacquire"]
    /\ UNCHANGED WorkerFrame
    /\ NoTest

\* a loop whose condition is not evaluated again after the yield
progress_reacquire_retest(i) ==
    /\ workers[i] = "reacquire"
    /\ CS_ENTER(i)
    /\ workers' = [workers EXCEPT ![i] = "test"]
    /\ UNCHANGED WorkerFrame
    /\ NoTest

\* line 454, second half of MPID_THREAD_CS_YIELD: enter it again
progress_reacquire(i) ==
    /\ workers[i] = "reacquire"
    /\ CS_ENTER(i)
    /\ workers' = [workers EXCEPT ![i] = "check"]
    /\ UNCHANGED WorkerFrame
    /\ NoTest

\* line 456
progress_end(i) ==
    /\ workers[i] = "end"
    /\ workers' = [workers EXCEPT ![i] = "exit"]
    /\ UNCHANGED <<WorkerFrame, cs_owner>>
    /\ NoTest

\* lines 458-460
progress_exit(i) ==
    /\ workers[i] = "exit"
    /\ CS_EXIT(i)
    /\ workers' = [workers EXCEPT ![i] = "done"]
    /\ UNCHANGED WorkerFrame
    /\ NoTest

(***************************************************************************)
(* An application thread that enters and leaves the global critical        *)
(* section, as every MPI call of a MPI_THREAD_MULTIPLE program does.        *)
(***************************************************************************)
AppFrame == <<cfgvars, MPIR_async_thread_initialized, progress_thread_id,
              async_done, workers, pinned, parsed, tests_after_stop, mainpc, lastcall,
              init_called, mpi_errno, refvars, mapvars, hintvars>>

app_request ==
    /\ apppc = "out"
    /\ apppc' = "waiting"
    /\ UNCHANGED <<AppFrame, cs_owner>>

app_enter ==
    /\ apppc = "waiting"
    /\ CS_ENTER(App)
    /\ apppc' = "in"
    /\ UNCHANGED AppFrame

app_exit ==
    /\ apppc = "in"
    /\ CS_EXIT(App)
    /\ apppc' = "out"
    /\ UNCHANGED AppFrame

(***************************************************************************)
(* Reference counting, lines 243-271.                                      *)
(***************************************************************************)
\* MPIR_Object_add_ref: one more reference
MPIR_Object_add_ref(count) == count + 1
\* MPIR_Object_release_ref: one reference less; inuse is the count left
MPIR_Object_release_ref(count) == count - 1

\* line 243: thread t, which owns a reference, takes one more and hands it
\* to thread u
MPIR_Comm_add_ref(t, u) ==
    /\ relpc[t] = "idle"
    /\ held[t] > 0
    /\ ref_count < MaxRef
    /\ ref_count' = MPIR_Object_add_ref(ref_count)
    /\ held' = [held EXCEPT ![u] = @ + 1]
    /\ UNCHANGED <<cfgvars, asyncvars, mapvars, hintvars, relpc, in_use, deleted,
                   del_errno, rel_errno>>

\* MPIR_Comm_release taking two references off the count for one given up
MPIR_Comm_release_ref_twice(t) ==
    /\ relpc[t] = "idle"
    /\ held[t] > 0
    /\ ref_count' = MPIR_Object_release_ref(MPIR_Object_release_ref(ref_count))
    /\ in_use' = [in_use EXCEPT
                     ![t] = MPIR_Object_release_ref(MPIR_Object_release_ref(ref_count))]
    /\ held' = [held EXCEPT ![t] = @ - 1]
    /\ relpc' = [relpc EXCEPT ![t] = "test"]
    /\ UNCHANGED <<cfgvars, asyncvars, mapvars, hintvars, deleted, del_errno,
                   rel_errno>>

\* line 261: MPIR_Comm_release gives up one of the caller's references
MPIR_Comm_release_ref(t) ==
    /\ relpc[t] = "idle"
    /\ held[t] > 0
    /\ ref_count' = MPIR_Object_release_ref(ref_count)
    /\ in_use' = [in_use EXCEPT ![t] = MPIR_Object_release_ref(ref_count)]
    /\ held' = [held EXCEPT ![t] = @ - 1]
    /\ relpc' = [relpc EXCEPT ![t] = "test"]
    /\ UNCHANGED <<cfgvars, asyncvars, mapvars, hintvars, deleted, del_errno,
                   rel_errno>>

\* the test of line 262 without its negation
must_delete_inverted(inuse) == inuse # 0

\* line 262
must_delete(inuse) == inuse = 0

\* a release that forgets what MPIR_Comm_delete_internal returned
release_errno_dropped(inuse, del) == "MPI_SUCCESS"

\* lines 258, 265 and 270: mpi_errno starts as MPI_SUCCESS and takes the
\* return value of MPIR_Comm_delete_internal when that is called
release_errno(inuse, del) == IF must_delete(inuse) THEN del ELSE "MPI_SUCCESS"

\* lines 262-270: delete the communicator when no reference is left; del is
\* what MPIR_Comm_delete_internal returns if it is called
MPIR_Comm_release_test(t, del) ==
    /\ relpc[t] = "test"
    /\ deleted' = IF must_delete(in_use[t]) THEN deleted + 1 ELSE deleted
    /\ del_errno' = IF must_delete(in_use[t]) THEN del ELSE del_errno
    /\ rel_errno' = [rel_errno EXCEPT ![t] = release_errno(in_use[t], del)]
    /\ relpc' = [relpc EXCEPT ![t] = "idle"]
    /\ UNCHANGED <<cfgvars, asyncvars, mapvars, hintvars, ref_count, held, in_use>>

(***************************************************************************)
(* The mapper chain, lines 31-67 and 230-231.  MPIR_Comm_map_dup,          *)
(* MPIR_Comm_map_irregular and MPIR_Comm_map_free are declared at lines    *)
(* 62-67; what they do is taken from the specification: the first two      *)
(* append a node at the tail, the third frees every node and every array   *)
(* the chain owns and leaves head and tail null.                           *)
(***************************************************************************)
\* lines 31-34
MapTypes == {"MPIR_COMM_MAP_TYPE__DUP", "MPIR_COMM_MAP_TYPE__IRREGULAR"}
\* lines 38-43
MapDirs == {"MPIR_COMM_MAP_DIR__L2L", "MPIR_COMM_MAP_DIR__L2R",
            "MPIR_COMM_MAP_DIR__R2L", "MPIR_COMM_MAP_DIR__R2R"}

MapNodes == 1 .. MaxMap

\* lines 45-60: the fields of MPIR_Comm_map_t; live, frees and array_frees
\* record what the allocator was asked to do with the node and its array
NoMap ==
    [live |-> FALSE, frees |-> 0, array_frees |-> 0,
     type |-> "MPIR_COMM_MAP_TYPE__DUP", dir |-> "MPIR_COMM_MAP_DIR__L2L",
     src_mapping_size |-> 0, src_mapping |-> <<>>, free_mapping |-> FALSE,
     next |-> 0]

\* the rank arrays handed to MPIR_Comm_map_irregular
SrcMappings == {<<0>>, <<1, 0>>}

\* the address the next allocated node gets
NewMap == 1 + Cardinality({m \in MapNodes : map_nodes[m] # NoMap})

\* the append of a new node at the tail of the chain
LL_APPEND(node) ==
    /\ NewMap \in MapNodes
    /\ map_nodes' =
           IF mapper_tail = 0
           THEN [map_nodes EXCEPT ![NewMap] = node]
           ELSE [map_nodes EXCEPT ![NewMap] = node, ![mapper_tail].next = NewMap]
    /\ mapper_head' = IF mapper_head = 0 THEN NewMap ELSE mapper_head
    /\ mapper_tail' = NewMap

\* lines 65-66: an identity-mapping node
MPIR_Comm_map_dup(dir) ==
    /\ comm_phase = "created"
    /\ LL_APPEND([NoMap EXCEPT !.live = TRUE, !.type = "MPIR_COMM_MAP_TYPE__DUP",
                                !.dir = dir])
    /\ UNCHANGED <<cfgvars, asyncvars, refvars, hintvars, comm_phase>>

\* lines 62-64: a node with an explicit rank array; free_mapping tells
\* whether the call allocated the array, so that the chain owns it
MPIR_Comm_map_irregular(dir, src_mapping, free_mapping) ==
    /\ comm_phase = "created"
    /\ LL_APPEND([NoMap EXCEPT !.live = TRUE,
                                !.type = "MPIR_COMM_MAP_TYPE__IRREGULAR",
                                !.dir = dir,
                                !.src_mapping_size = Len(src_mapping),
                                !.src_mapping = src_mapping,
                                !.free_mapping = free_mapping])
    /\ UNCHANGED <<cfgvars, asyncvars, refvars, hintvars, comm_phase>>

\* the walk of MPIR_Comm_map_free: free the array a node owns, free the
\* node, go on with its successor
RECURSIVE free_chain(_, _)
free_chain(nodes, m) ==
    IF m = 0 THEN nodes
    ELSE free_chain([nodes EXCEPT
                        ![m].live = FALSE,
                        ![m].frees = @ + 1,
                        ![m].array_frees = IF nodes[m].free_mapping THEN @ + 1 ELSE @],
                    nodes[m].next)

\* a free that forgets the tail pointer
MPIR_Comm_map_free_head_only ==
    /\ map_nodes' = free_chain(map_nodes, mapper_head)
    /\ mapper_head' = 0
    /\ UNCHANGED mapper_tail

\* line 67
MPIR_Comm_map_free ==
    /\ map_nodes' = free_chain(map_nodes, mapper_head)
    /\ mapper_head' = 0
    /\ mapper_tail' = 0

\* line 285: the commit of the communicator, as far as the mapper is concerned
MPIR_Comm_commit ==
    /\ comm_phase = "created"
    /\ MPIR_Comm_map_free
    /\ comm_phase' = "committed"
    /\ UNCHANGED <<cfgvars, asyncvars, refvars, hintvars>>

MapInit ==
    /\ mapper_head = 0
    /\ mapper_tail = 0
    /\ map_nodes = [m \in MapNodes |-> NoMap]
    /\ comm_phase = "created"

(***************************************************************************)
(* The hint registry, lines 70-98, 213 and 296-312.  Only the declaration  *)
(* of MPIR_Comm_register_hint and the rule of lines 298-301 are in the     *)
(* header; the code that sets a hint is taken from the specification.      *)
(***************************************************************************)
\* lines 70-71
MPIR_COMM_HINT_TYPE_BOOL == 0
MPIR_COMM_HINT_TYPE_INT == 1
\* line 77
MPIR_COMM_HINT_ATTR_LOCAL == 1
\* lines 83-84: the first two predefined keys
MPIR_COMM_HINT_NO_ANY_TAG == 1
MPIR_COMM_HINT_NO_ANY_SOURCE == 2

HintIndices == {MPIR_COMM_HINT_NO_ANY_TAG, MPIR_COMM_HINT_NO_ANY_SOURCE}
HintTypes == {MPIR_COMM_HINT_TYPE_BOOL, MPIR_COMM_HINT_TYPE_INT}

\* an index without a registered key; fn tells whether a hint function
\* was supplied
NoHint == [key |-> FALSE, fn |-> FALSE, type |-> MPIR_COMM_HINT_TYPE_BOOL,
           attr |-> 0, default_val |-> 0]

\* the values an info object may carry for a key
TrueStr == <<"t", "r", "u", "e">>
FalseStr == <<"f", "a", "l", "s", "e">>
InfoValues == {TrueStr, FalseStr, <<"0">>, <<"1">>, <<"1", "0">>}

\* lines 311-312: the table is append-only, an index is registered once
MPIR_Comm_register_hint(index, fn, type, attr, default_val) ==
    /\ hint_phase = "registering"
    /\ MPIR_comm_hint_list[index] = NoHint
    /\ MPIR_comm_hint_list' =
           [MPIR_comm_hint_list EXCEPT
               ![index] = [key |-> TRUE, fn |-> fn, type |-> type, attr |-> attr,
                           default_val |-> default_val]]
    /\ UNCHANGED <<cfgvars, asyncvars, refvars, mapvars, hints, hint_writer,
                   hint_phase, set_call>>

\* line 356: the initialisation of a new communicator gives every hint its
\* registered default
MPII_Comm_init ==
    /\ hint_phase = "registering"
    /\ hint_phase' = "ready"
    /\ hints' = [i \in HintIndices |-> MPIR_comm_hint_list[i].default_val]
    /\ hint_writer' = [i \in HintIndices |-> "init"]
    /\ UNCHANGED <<cfgvars, asyncvars, refvars, mapvars, MPIR_comm_hint_list, set_call>>

\* line 306: the value is parsed according to the declared type
hint_value(type, val) ==
    IF type = MPIR_COMM_HINT_TYPE_BOOL /\ val = TrueStr THEN 1
    ELSE IF type = MPIR_COMM_HINT_TYPE_BOOL /\ val = FalseStr THEN 0
    ELSE atoi(val)

\* a layer that stores the value whether or not a hint function exists
layer_sets_always(entry) == TRUE

\* lines 298-301: the layer sets the hints array itself only when no hint
\* function is registered
layer_sets(entry) == ~entry.fn

\* line 375: setting the hint of a registered key from an info value; accept tells
\* whether the hint function, if there is one, takes the value
MPII_Comm_set_hints(index, val, accept) ==
    LET entry == MPIR_comm_hint_list[index]
        v == hint_value(entry.type, val)
        by_fn == entry.fn /\ accept
        after_fn == IF by_fn THEN [hints EXCEPT ![index] = v] ELSE hints
    IN  /\ hint_phase = "ready"
        /\ entry.key
        /\ hints' = IF layer_sets(entry) THEN [after_fn EXCEPT ![index] = v]
                    ELSE after_fn
        /\ hint_writer' =
               IF layer_sets(entry) THEN [hint_writer EXCEPT ![index] = "layer"]
               ELSE IF by_fn THEN [hint_writer EXCEPT ![index] = "fn"]
               ELSE hint_writer
        /\ set_call' = [index |-> index, val |-> val,
                        ret |-> IF entry.fn /\ ~accept THEN "MPI_ERR_OTHER"
                                ELSE "MPI_SUCCESS"]
        /\ UNCHANGED <<cfgvars, asyncvars, refvars, mapvars, MPIR_comm_hint_list,
                       hint_phase>>

HintInit ==
    /\ MPIR_comm_hint_list = [i \in HintIndices |-> NoHint]
    /\ hints = [i \in HintIndices |-> 0]
    /\ hint_writer = [i \in HintIndices |-> "init"]
    /\ hint_phase = "registering"
    /\ set_call = [index |-> 0, val |-> <<>>, ret |-> "MPI_SUCCESS"]

(***************************************************************************)
(* Initial states and specifications.                                      *)
(***************************************************************************)
NoNodeComm == [present |-> FALSE, rank |-> 0, local_size |-> 0]

NodeCases(n) ==
    {NoNodeComm} \cup
    {[present |-> TRUE, rank |-> lr, local_size |-> ln] :
         lr \in 0 .. (MaxSize - 1), ln \in 1 .. n}

\* the committed world communicators: rank in [0, local_size), and the node
\* communicator a part of the world that keeps the order of its ranks
WorldCases ==
    {w \in [rank : 0 .. (MaxSize - 1), local_size : 1 .. MaxSize,
            node_comm : NodeCases(MaxSize)] :
        /\ w.rank < w.local_size
        /\ w.node_comm.present =>
               /\ w.node_comm.rank < w.node_comm.local_size
               /\ w.node_comm.rank <= w.rank
               /\ w.node_comm.local_size - w.node_comm.rank
                      <= w.local_size - w.rank}

\* the lifecycle is explored for the first rank of a single-node job of one
\* or two processes without clique partitioning, with no affinity string
\* and with the string "0" (accepted for one slot, too short for two)
LifeWorlds ==
    {w \in WorldCases : /\ w.rank = 0
                        /\ w.local_size <= 2
                        /\ w.node_comm.present
                        /\ w.node_comm.rank = 0
                        /\ w.node_comm.local_size = w.local_size}

LifeConfig ==
    /\ MPICH_IS_THREADED \in BOOLEAN
    /\ MPIR_CVAR_ASYNC_PROGRESS \in BOOLEAN
    /\ MPIR_CVAR_CH4_PROGRESS_THREAD_AFFINITY \in {CStr(<<>>), CStr(<<"0">>)}
    /\ MPIR_CVAR_NUM_CLIQUES = 1
    /\ MPIR_CVAR_ODD_EVEN_CLIQUES = FALSE
    /\ thread_provided \in {"MPI_THREAD_SERIALIZED", "MPI_THREAD_MULTIPLE"}
    /\ comm_world \in LifeWorlds
    /\ nprocs = MaxProcs

\* start-up is explored in the threaded build with async progress requested
\* and MPI_THREAD_MULTIPLE provided, for every affinity string up to MaxLen;
\* MPL_get_nprocs is only called when there is no affinity string (line 474)
StartConfig ==
    /\ MPICH_IS_THREADED = TRUE
    /\ MPIR_CVAR_ASYNC_PROGRESS = TRUE
    /\ MPIR_CVAR_CH4_PROGRESS_THREAD_AFFINITY \in
           {NullStr} \cup {CStr(s) : s \in StringsUpTo(MaxLen)}
    /\ MPIR_CVAR_NUM_CLIQUES \in {1, 2}
    /\ MPIR_CVAR_ODD_EVEN_CLIQUES \in BOOLEAN
    /\ thread_provided = "MPI_THREAD_MULTIPLE"
    /\ comm_world \in WorldCases
    /\ nprocs \in IF affinity_given(MPIR_CVAR_CH4_PROGRESS_THREAD_AFFINITY)
                  THEN {MaxProcs}
                  ELSE 1 .. MaxProcs

AsyncInit ==
    /\ MPIR_async_thread_initialized = 0
    /\ progress_thread_id = 0
    /\ async_done = 0
    /\ workers = [i \in Workers |-> "none"]
    /\ pinned = 0 - 1
    /\ parsed = [mpi_errno |-> "MPI_SUCCESS", thread_affinity |-> <<>>]
    /\ tests_after_stop = [i \in Workers |-> 0]
    /\ cs_owner = Free
    /\ mainpc = "idle"
    /\ lastcall = "none"
    /\ init_called = FALSE
    /\ mpi_errno = "MPI_SUCCESS"
    /\ apppc = "out"

\* every thread starts with one reference of its own
RefInit ==
    /\ ref_count = NThreads
    /\ held = [t \in Threads |-> 1]
    /\ relpc = [t \in Threads |-> "idle"]
    /\ in_use = [t \in Threads |-> 1]
    /\ deleted = 0
    /\ del_errno = "none"
    /\ rel_errno = [t \in Threads |-> "MPI_SUCCESS"]

Init == LifeConfig /\ AsyncInit /\ RefInit /\ MapInit /\ HintInit

Next ==
    \/ MPII_init_async
    \/ MPII_finalize_async
    \/ MPID_Thread_join
    \/ \E i \in Workers :
          \/ progress_enter(i)
          \/ progress_start(i)
          \/ progress_check(i)
          \/ progress_test(i)
          \/ progress_yield(i)
          \/ progress_reacquire(i)
          \/ progress_end(i)
          \/ progress_exit(i)
    \/ app_request
    \/ app_enter
    \/ app_exit

\* the lifecycle of the progress thread
Spec == Init /\ [][Next]_vars

\* the lifecycle under the scheduling a fair mutex and a fair scheduler give:
\* every thread that can run does run, and a thread waiting for the global
\* critical section gets it if it is free again and again
FairSpec ==
    /\ Spec
    /\ WF_vars(MPID_Thread_join)
    /\ \A i \in Workers :
          /\ SF_vars(progress_enter(i))
          /\ WF_vars(progress_start(i))
          /\ WF_vars(progress_check(i))
          /\ WF_vars(progress_test(i))
          /\ WF_vars(progress_yield(i))
          /\ SF_vars(progress_reacquire(i))
          /\ WF_vars(progress_end(i))
          /\ WF_vars(progress_exit(i))
    /\ SF_vars(app_enter)
    /\ WF_vars(app_exit)

\* the lifecycle with the progress tests after the stop flag counted
NextStop ==
    \/ MPII_init_async
    \/ MPII_finalize_async
    \/ MPID_Thread_join
    \/ \E i \in Workers :
          \/ progress_enter(i)
          \/ progress_start(i)
          \/ progress_check(i)
          \/ progress_test_counted(i)
          \/ progress_yield(i)
          \/ progress_reacquire(i)
          \/ progress_end(i)
          \/ progress_exit(i)
    \/ app_request
    \/ app_enter
    \/ app_exit
SpecStop == Init /\ [][NextStop]_vars

\* the first start-up, over all affinity strings and world communicators
InitStart == StartConfig /\ AsyncInit /\ RefInit /\ MapInit /\ HintInit
NextStart == ~init_called /\ MPII_init_async
SpecStart == InitStart /\ [][NextStart]_vars

\* reference counting on one communicator shared by NThreads threads
InitRef ==
    /\ MPICH_IS_THREADED = TRUE
    /\ MPIR_CVAR_ASYNC_PROGRESS = FALSE
    /\ MPIR_CVAR_CH4_PROGRESS_THREAD_AFFINITY = CStr(<<>>)
    /\ MPIR_CVAR_NUM_CLIQUES = 1
    /\ MPIR_CVAR_ODD_EVEN_CLIQUES = FALSE
    /\ thread_provided = "MPI_THREAD_MULTIPLE"
    /\ comm_world = [rank |-> 0, local_size |-> 1, node_comm |-> NoNodeComm]
    /\ nprocs = 1
    /\ AsyncInit
    /\ RefInit
    /\ MapInit
    /\ HintInit
NextRef ==
    \E t \in Threads :
        \/ \E u \in Threads : MPIR_Comm_add_ref(t, u)
        \/ MPIR_Comm_release_ref(t)
        \/ \E del \in {"MPI_SUCCESS", "MPI_ERR_OTHER"} : MPIR_Comm_release_test(t, del)
SpecRef == InitRef /\ [][NextRef]_vars

\* the mapper chain of one communicator from its creation to its commit
NextMap ==
    \/ \E dir \in MapDirs : MPIR_Comm_map_dup(dir)
    \/ \E dir \in MapDirs, src_mapping \in SrcMappings, free_mapping \in BOOLEAN :
           MPIR_Comm_map_irregular(dir, src_mapping, free_mapping)
    \/ MPIR_Comm_commit
SpecMap == InitRef /\ [][NextMap]_vars

\* the registration of hints, then one communicator whose hints are set
NextHint ==
    \/ \E index \in HintIndices, fn \in BOOLEAN, type \in HintTypes,
          attr \in {0, MPIR_COMM_HINT_ATTR_LOCAL}, default_val \in {0, 1} :
           MPIR_Comm_register_hint(index, fn, type, attr, default_val)
    \/ MPII_Comm_init
    \/ \E index \in HintIndices, val \in InfoValues, accept \in BOOLEAN :
           MPII_Comm_set_hints(index, val, accept)
SpecHint == InitRef /\ [][NextHint]_vars

(***************************************************************************)
(* Properties.                                                             *)
(***************************************************************************)
\* the workers that are running progress_fn
Alive == {i \in Workers : workers[i] \notin {"none", "done", "joined"}}

\* MPII_init_async goes as far as MPIR_Init_async_thread
StartAttempted ==
    MPICH_IS_THREADED /\ MPIR_CVAR_ASYNC_PROGRESS
        /\ thread_provided = "MPI_THREAD_MULTIPLE"

\* the entries of an affinity string: the pieces between its delimiters
RECURSIVE Entries(_)
Entries(s) ==
    LET k == FirstDelim(s, 1)
    IN  IF k = 0 THEN <<s>>
        ELSE <<SubSeq(s, 1, k - 1)>> \o Entries(SubSeq(s, k + 1, Len(s)))

\* an entry that is a non-negative logical-processor id
IsProcId(e) == Len(e) > 0 /\ \A k \in 1 .. Len(e) : e[k] \in Digits

UserAffinity == MPIR_CVAR_CH4_PROGRESS_THREAD_AFFINITY.s

\* MPII_init_async returned an error and left no trace
StartFailedCleanly ==
    /\ mpi_errno # "MPI_SUCCESS"
    /\ \A i \in Workers : workers[i] = "none"
    /\ MPIR_async_thread_initialized = 0

\* C1: under any interleaving of add_ref and release in which every release
\* gives up a reference its thread owns, MPIR_Comm_delete_internal runs at most
\* once, only when the count is zero, only in the release whose decrement
\* reached zero, and it has run once all releases have returned
DeleteExactlyOnce ==
    /\ deleted <= 1
    /\ deleted = 1 => ref_count = 0
    /\ Cardinality({t \in Threads : relpc[t] = "test" /\ in_use[t] = 0}) <= 1
    /\ \A t \in Threads :
           (relpc[t] = "test" /\ in_use[t] = 0) => (ref_count = 0 /\ deleted = 0)
    /\ (ref_count = 0 /\ \A t \in Threads : relpc[t] = "idle") => deleted = 1
\* the communicator was deleted while another release is still returning
DeletedUnderConcurrentRelease ==
    /\ deleted = 1
    /\ \E t \in Threads : relpc[t] = "test" /\ in_use[t] # 0

\* C2: once MPIR_Finalize_async_thread has set the stop flag and waits in the
\* join for a worker that was started, the worker sees the flag, leaves the
\* loop and the critical section and exits, and the join returns
FinalizePending == mainpc = "join" /\ workers[progress_thread_id] # "joined"
FinalizeReturned ==
    /\ mainpc = "idle"
    /\ async_done = 1
    /\ workers[progress_thread_id] = "joined"
    /\ cs_owner # progress_thread_id
StartStopTerminates == FinalizePending ~> FinalizeReturned
\* the stop flag was set before the worker entered its loop
StoppedBeforeLoop ==
    /\ mainpc = "join"
    /\ workers[progress_thread_id] \in {"enter", "start"}

\* C3: with async progress requested and a thread level below
\* MPI_THREAD_MULTIPLE, no call creates a thread, sets
\* MPIR_async_thread_initialized or the stop flag, or waits in a join, and
\* every call returns success
DegradePath ==
    (MPIR_CVAR_ASYNC_PROGRESS /\ thread_provided # "MPI_THREAD_MULTIPLE") =>
        /\ \A i \in Workers : workers[i] = "none"
        /\ MPIR_async_thread_initialized = 0
        /\ async_done = 0
        /\ mainpc = "idle"
        /\ mpi_errno = "MPI_SUCCESS"
\* MPII_finalize_async returned after a degraded MPII_init_async
DegradedThenFinalized ==
    /\ MPICH_IS_THREADED
    /\ MPIR_CVAR_ASYNC_PROGRESS
    /\ thread_provided # "MPI_THREAD_MULTIPLE"
    /\ init_called
    /\ lastcall = "finalize"

\* C4: a user affinity string with fewer entries than thread slots makes
\* MPII_init_async fail with no thread created and
\* MPIR_async_thread_initialized still 0
TooFewEntriesFails ==
    (/\ StartAttempted
     /\ init_called
     /\ affinity_given(MPIR_CVAR_CH4_PROGRESS_THREAD_AFFINITY)
     /\ Len(Entries(UserAffinity)) < threads_per_node)
        => StartFailedCleanly
\* the string "0" with two thread slots was rejected
OneEntryTwoSlots ==
    /\ StartAttempted
    /\ init_called
    /\ MPIR_CVAR_CH4_PROGRESS_THREAD_AFFINITY = CStr(<<"0">>)
    /\ threads_per_node = 2
    /\ mpi_errno = "MPI_ERR_OTHER"

\* C5: a user affinity string with an entry that is not a non-negative
\* processor id makes MPII_init_async fail with no thread created
MalformedEntryFails ==
    (/\ StartAttempted
     /\ init_called
     /\ affinity_given(MPIR_CVAR_CH4_PROGRESS_THREAD_AFFINITY)
     /\ \E k \in 1 .. Len(Entries(UserAffinity)) : ~IsProcId(Entries(UserAffinity)[k]))
        => StartFailedCleanly

\* C6: a user affinity string with more entries than thread slots makes
\* MPII_init_async fail with no thread created (stated for strings whose
\* entries are all processor ids, so that the count is the only mismatch)
TooManyEntriesFails ==
    (/\ StartAttempted
     /\ init_called
     /\ affinity_given(MPIR_CVAR_CH4_PROGRESS_THREAD_AFFINITY)
     /\ \A k \in 1 .. Len(Entries(UserAffinity)) : IsProcId(Entries(UserAffinity)[k])
     /\ Len(Entries(UserAffinity)) > threads_per_node)
        => StartFailedCleanly

\* C7: when MPII_init_async has returned an error, every worker that is
\* running is one MPII_finalize_async will stop and join
FailedStartLeavesNoThread ==
    (lastcall = "init" /\ mpi_errno # "MPI_SUCCESS") =>
        \A i \in Alive :
            MPIR_async_thread_initialized # 0 /\ progress_thread_id = i

\* C8: an application thread waiting for the global critical section gets
\* it, however long the progress loop runs
AppNotStarved == (apppc = "waiting") ~> (apppc = "in")
\* the application thread is inside while a running worker has yielded
AppInsideDuringYield ==
    /\ apppc = "in"
    /\ async_done = 0
    /\ \E i \in Workers : workers[i] = "reacquire"

\* C9: at most one worker thread is running
AtMostOneWorker == Cardinality(Alive) <= 1

\* C10: the manager only moves Uninitialized -> Running -> Stopped; the stop
\* flag is never cleared, and once a worker was stopped and joined no worker
\* is in or enters a progress test
ManagerState ==
    IF MPIR_async_thread_initialized = 0 THEN "Uninitialized"
    ELSE IF async_done = 0 THEN "Running"
    ELSE "Stopped"
Stopped == async_done = 1 /\ \E i \in Workers : workers[i] = "joined"
StoppedIsTerminal ==
    [][/\ \/ ManagerState' = ManagerState
          \/ ManagerState = "Uninitialized" /\ ManagerState' = "Running"
          \/ ManagerState = "Running" /\ ManagerState' = "Stopped"
       /\ async_done = 1 => async_done' = 1
       /\ Stopped => \A i \in Workers : workers[i] # "test" /\ workers'[i] # "test"]_vars
\* after a stop, MPII_init_async ran again and its new worker has exited
RestartedAfterStop ==
    /\ Stopped
    /\ lastcall = "init"
    /\ mpi_errno = "MPI_SUCCESS"
    /\ workers[progress_thread_id] = "done"


(***************************************************************************)
(* Shutdown order, lines 611-624.                                          *)
(***************************************************************************)
\* the step in which MPIR_Finalize_async_thread returns to its caller
FinalizeReturns == mainpc = "join" /\ mainpc' = "idle"

\* the thread named by the handle has left progress_fn and holds no lock
HandleExited ==
    /\ workers[progress_thread_id] \in {"done", "joined"}
    /\ cs_owner # progress_thread_id

\* C11: MPIR_Finalize_async_thread stores the stop flag before it waits in
\* the join (while it waits, the flag is 1); it returns only when the thread
\* of the handle has left its loop, released the global critical section
\* and exited; no step of it ends a thread by force, and apart from the flag,
\* the join itself and the return value it changes nothing.
FinalizeWaitsForWorker ==
    /\ [](mainpc = "join" => async_done = 1)
    /\ [][FinalizeReturns => HandleExited /\ async_done = 1]_vars
    /\ [][mainpc = "join" =>
             /\ \A i \in Workers :
                    workers'[i] # workers[i] /\ workers'[i] \in {"done", "joined"}
                    => \/ workers[i] = "exit" /\ workers'[i] = "done"
                       \/ workers[i] = "done" /\ workers'[i] = "joined"
                          /\ i = progress_thread_id
             /\ UNCHANGED <<MPIR_async_thread_initialized, progress_thread_id,
                            pinned, parsed, async_done, init_called>>]_vars

\* finalize has returned after joining a worker that did run
JoinedAfterStop ==
    /\ lastcall = "finalize"
    /\ mainpc = "idle"
    /\ async_done = 1
    /\ MPIR_async_thread_initialized = 1
    /\ workers[progress_thread_id] = "joined"
    /\ cs_owner # progress_thread_id


(***************************************************************************)
(* Pinning, lines 594-599.                                                  *)
(***************************************************************************)
UserGaveAffinity == affinity_given(MPIR_CVAR_CH4_PROGRESS_THREAD_AFFINITY)

\* the first call created its thread and MPL_thread_set_affinity failed:
\* every successful pin stores a processor id, which is never negative
PinFailed ==
    /\ init_called
    /\ progress_thread_id \in Workers
    /\ pinned = 0 - 1

\* C12: when pinning the created thread fails, MPIR_Init_async_thread
\* returns an error exactly if the user gave a non-empty affinity string;
\* with no string or an empty one the failure is ignored: the call returns
\* MPI_SUCCESS and the thread runs.
PinFailureMattersIffUserAffinity ==
    PinFailed =>
        /\ (mpi_errno # "MPI_SUCCESS") <=> UserGaveAffinity
        /\ ~UserGaveAffinity =>
               /\ mpi_errno = "MPI_SUCCESS"
               /\ MPIR_async_thread_initialized = 1
               /\ progress_thread_id \in Alive

\* pinning failed without an affinity string and the start succeeded
PinFailureIgnored ==
    /\ PinFailed
    /\ ~UserGaveAffinity
    /\ mpi_errno = "MPI_SUCCESS"
    /\ progress_thread_id \in Alive


(***************************************************************************)
(* The affinity table, lines 463-530.                                      *)
(***************************************************************************)
\* the number a string of decimal digits denotes
RECURSIVE IdValue(_)
IdValue(e) ==
    IF Len(e) = 0 THEN 0
    ELSE 10 * IdValue(SubSeq(e, 1, Len(e) - 1)) + DigitVal(e[Len(e)])

\* the user's string lists exactly one well-formed id per thread slot
ExactIdList ==
    /\ UserGaveAffinity
    /\ Len(Entries(UserAffinity)) = threads_per_node
    /\ \A k \in 1 .. Len(Entries(UserAffinity)) : IsProcId(Entries(UserAffinity)[k])

\* C13: for a user affinity string of exactly threads_per_node well-formed
\* non-negative ids separated by delimiters, the parse succeeds and slot i
\* of the table holds the i-th id of the string, in order.
ExactListParsedInOrder ==
    (init_called /\ ExactIdList) =>
        /\ parsed.mpi_errno = "MPI_SUCCESS"
        /\ Len(parsed.thread_affinity) = threads_per_node
        /\ \A i \in 0 .. threads_per_node - 1 :
               parsed.thread_affinity[i + 1] = IdValue(Entries(UserAffinity)[i + 1])

\* "0,1" with two thread slots gives the table [0, 1]
ZeroOneParsed ==
    /\ init_called
    /\ UserAffinity = <<"0", ",", "1">>
    /\ threads_per_node = 2
    /\ parsed = [mpi_errno |-> "MPI_SUCCESS", thread_affinity |-> <<0, 1>>]


\* C14: with no affinity string (NULL or empty) the parse always succeeds
\* and slot i of the table holds nprocs - 1 - (i mod nprocs), an id in
\* [0, nprocs).
DefaultAffinityCountsDown ==
    (init_called /\ ~UserGaveAffinity) =>
        /\ parsed.mpi_errno = "MPI_SUCCESS"
        /\ Len(parsed.thread_affinity) = threads_per_node
        /\ \A i \in 0 .. threads_per_node - 1 :
               /\ parsed.thread_affinity[i + 1] = nprocs - 1 - (i % nprocs)
               /\ parsed.thread_affinity[i + 1] \in 0 .. nprocs - 1

\* a default table with more thread slots than processors: the ids wrap
DefaultAffinityWrapped ==
    /\ init_called
    /\ ~UserGaveAffinity
    /\ threads_per_node > nprocs
    /\ Len(parsed.thread_affinity) = threads_per_node
    /\ parsed.thread_affinity[threads_per_node] = nprocs - 1 - ((threads_per_node - 1) % nprocs)


(***************************************************************************)
(* Size and index of the affinity table, lines 543-570 and 586-594.        *)
(***************************************************************************)
\* the clique override: a clique count above 1 or the odd/even flag
CliqueOverride == MPIR_CVAR_NUM_CLIQUES > 1 \/ MPIR_CVAR_ODD_EVEN_CLIQUES

ExpectedSlots ==
    IF CliqueOverride THEN comm_world.local_size
    ELSE IF comm_world.node_comm.present THEN comm_world.node_comm.local_size
    ELSE 1

ExpectedIndex ==
    IF CliqueOverride THEN comm_world.rank
    ELSE IF comm_world.node_comm.present THEN comm_world.node_comm.rank
    ELSE 0

\* the first call parsed a table, created its thread and pinned it
Pinned ==
    /\ init_called
    /\ parsed.mpi_errno = "MPI_SUCCESS"
    /\ progress_thread_id \in Workers
    /\ pinned # 0 - 1

\* C15: with the clique override the table has as many slots as the world
\* has processes and the thread is pinned to the slot of the global rank;
\* otherwise the table has the node communicator's size (1 without a node
\* communicator) and the slot is that of the node-local rank (0 without).
TableSizedAndIndexedByCliques ==
    /\ (init_called /\ parsed.mpi_errno = "MPI_SUCCESS")
           => Len(parsed.thread_affinity) = ExpectedSlots
    /\ Pinned => /\ ExpectedIndex + 1 \in 1 .. Len(parsed.thread_affinity)
                 /\ pinned = parsed.thread_affinity[ExpectedIndex + 1]

\* the odd/even flag alone makes a process of global rank 1, node rank 0,
\* take the world-sized table's slot 1
GlobalRankIndexesTable ==
    /\ Pinned
    /\ MPIR_CVAR_NUM_CLIQUES = 1 /\ MPIR_CVAR_ODD_EVEN_CLIQUES
    /\ comm_world.rank = 1
    /\ local_rank = 0
    /\ Len(parsed.thread_affinity) = comm_world.local_size
    /\ pinned = parsed.thread_affinity[2]
    /\ pinned # parsed.thread_affinity[1]


StopFlagSetWithoutLock ==
    /\ [](mainpc = "idle" => ENABLED MPII_finalize_async)
    /\ [][async_done' # async_done =>
             /\ async_done' = 1
             /\ cs_owner' = cs_owner
             /\ mainpc = "idle" /\ mainpc' = "join"]_vars

\* the flag was stored while a worker was inside MPID_Progress_test, holding
\* the lock: it passed the loop test when the flag was still 0
FlagSetUnderHeldLock ==
    /\ mainpc = "join"
    /\ async_done = 1
    /\ \E i \in Workers : workers[i] = "test" /\ cs_owner = i


(***************************************************************************)
(* The worker and the global critical section, lines 445-461.              *)
(***************************************************************************)
\* the positions of progress_fn between its MPID_THREAD_CS_ENTER (or the
\* re-entry of a yield) and its next release of the section
InSection == {"start", "check", "test", "yield", "end", "exit"}

\* the order of the statements of progress_fn
WorkerSteps ==
    {<<"enter", "start">>, <<"start", "check">>, <<"check", "test">>,
     <<"test", "yield">>, <<"yield", "reacquire">>, <<"reacquire", "check">>,
     <<"check", "end">>, <<"end", "exit">>, <<"exit", "done">>}

\* C20: the worker calls the progress engine only while it owns the global
\* critical section, never while an application thread is inside it; it
\* enters, calls progress start once, then in each iteration runs one
\* progress test followed by one yield; it leaves the loop only after it
\* read the stop flag as set, calls progress end once, exits the section
\* and owns no lock when it has terminated.
WorkerProgressInsideSection ==
    /\ [](\A i \in Workers :
            /\ workers[i] \in InSection => cs_owner = i
            /\ workers[i] \notin InSection => cs_owner # i)
    /\ [](apppc = "in" => \A i \in Workers : workers[i] \notin InSection)
    /\ [][\A i \in Workers :
             (workers'[i] # workers[i] /\ workers[i] \notin {"none", "done"}) =>
                 /\ <<workers[i], workers'[i]>> \in WorkerSteps
                 /\ workers'[i] = "test" => async_done = 0
                 /\ workers'[i] = "end" => async_done = 1]_vars

\* a worker inside MPID_Progress_test while an application thread waits for
\* the section
WorkerTestsWhileAppWaits ==
    /\ apppc = "waiting"
    /\ \E i \in Workers : workers[i] = "test" /\ cs_owner = i


(***************************************************************************)
(* The mapper chain, lines 45-67 and 227-231.                              *)
(***************************************************************************)
\* the nodes reached from m through the next pointers, at most n of them
RECURSIVE ChainFrom(_, _)
ChainFrom(m, n) ==
    IF m = 0 \/ n = 0 THEN <<>>
    ELSE <<m>> \o ChainFrom(map_nodes[m].next, n - 1)

Chain == ChainFrom(mapper_head, MaxMap + 1)
Allocated == {m \in MapNodes : map_nodes[m] # NoMap}

\* C18: the mapper chain is non-empty only between creation and commit;
\* until the commit the chain from mapper_head lists the nodes in the order
\* MPIR_Comm_map_dup and MPIR_Comm_map_irregular appended them and
\* mapper_tail is its last node; the MPIR_Comm_map_free of the commit frees
\* every node once, every array the chain owns once and no other, and
\* leaves mapper_head and mapper_tail null, so the chain is empty in every
\* state after the commit.
MapperChainTransient ==
    /\ mapper_head # 0 => comm_phase = "created"
    /\ comm_phase = "created" =>
           /\ Chain = [k \in 1 .. Cardinality(Allocated) |-> k]
           /\ mapper_tail = Cardinality(Allocated)
           /\ \A m \in Allocated :
                  map_nodes[m].live /\ map_nodes[m].frees = 0
                      /\ map_nodes[m].array_frees = 0
    /\ comm_phase = "committed" =>
           /\ mapper_head = 0 /\ mapper_tail = 0
           /\ \A m \in Allocated :
                  /\ ~map_nodes[m].live
                  /\ map_nodes[m].frees = 1
                  /\ map_nodes[m].array_frees =
                         IF map_nodes[m].free_mapping THEN 1 ELSE 0

\* a committed communicator whose chain held a dup node followed by an
\* irregular node that owned its array
ChainOfTwoFreed ==
    /\ comm_phase = "committed"
    /\ mapper_head = 0 /\ mapper_tail = 0
    /\ map_nodes[1].type = "MPIR_COMM_MAP_TYPE__DUP" /\ map_nodes[1].next = 2
    /\ map_nodes[2].type = "MPIR_COMM_MAP_TYPE__IRREGULAR"
    /\ map_nodes[2].free_mapping /\ map_nodes[2].array_frees = 1
    /\ map_nodes[1].frees = 1 /\ map_nodes[2].frees = 1

(***************************************************************************)
(* Hints, lines 296-312.                                                   *)
(***************************************************************************)
\* the value an info string of the right form stands for under a type
WellTyped(type, val) ==
    IF type = MPIR_COMM_HINT_TYPE_BOOL THEN val \in {TrueStr, FalseStr}
    ELSE IsProcId(val)
ExpectedHint(type, val) ==
    IF type = MPIR_COMM_HINT_TYPE_BOOL THEN (IF val = TrueStr THEN 1 ELSE 0)
    ELSE IdValue(val)

\* C19: when a hint is set and a hint function is registered for its key,
\* the registry layer does not write the hints array itself, and a value
\* the function rejects leaves the stored value unchanged; when none is
\* registered the value is coerced by the declared type and stored at the
\* key's index; an index that was never set reads back as its registered
\* default.
HintSetRule ==
    /\ [](hint_phase = "ready" =>
            \A i \in HintIndices :
                /\ hint_writer[i] = "init" => hints[i] = MPIR_comm_hint_list[i].default_val
                /\ MPIR_comm_hint_list[i].fn => hint_writer[i] # "layer"
                /\ ~MPIR_comm_hint_list[i].fn => hint_writer[i] # "fn")
    /\ [](set_call.index \in HintIndices =>
            LET entry == MPIR_comm_hint_list[set_call.index]
            IN  (~entry.fn /\ WellTyped(entry.type, set_call.val)) =>
                    /\ hints[set_call.index] = ExpectedHint(entry.type, set_call.val)
                    /\ hint_writer[set_call.index] = "layer"
                    /\ set_call.ret = "MPI_SUCCESS")
    /\ [][(set_call' # set_call /\ set_call'.ret # "MPI_SUCCESS") =>
             UNCHANGED <<hints, hint_writer>>]_vars
    /\ [][set_call' # set_call =>
             \A i \in HintIndices : i # set_call'.index => hints'[i] = hints[i]]_vars

\* a hint function rejected a value for a key it had set before, while the
\* other key, without a function, still reads as its default
RejectedAfterAccepted ==
    /\ hint_phase = "ready"
    /\ set_call.index \in HintIndices
    /\ set_call.ret = "MPI_ERR_OTHER"
    /\ hint_writer[set_call.index] = "fn"
    /\ hints[set_call.index] # hint_value(MPIR_comm_hint_list[set_call.index].type, set_call.val)
    /\ \E i \in HintIndices :
           /\ MPIR_comm_hint_list[i].key /\ ~MPIR_comm_hint_list[i].fn
           /\ hint_writer[i] = "init"
           /\ hints[i] = 1


(***************************************************************************)
(* MPIR_Comm_release, lines 249-271.                                       *)
(***************************************************************************)
\* thread t takes the step in which its MPIR_Comm_release returns
ReleaseReturns(t) == relpc[t] = "test" /\ relpc'[t] = "idle"

\* C21: MPIR_Comm_release calls MPIR_Comm_delete_internal exactly if the
\* count its own decrement left is zero; when references remain it returns
\* MPI_SUCCESS and changes nothing of the object; when it deletes it
\* returns what MPIR_Comm_delete_internal returned.
ReleaseDeletesIffLast ==
    /\ [][\A t \in Threads :
             (relpc[t] = "idle" /\ relpc'[t] = "test") =>
                 ref_count' = ref_count - 1 /\ in_use'[t] = ref_count']_vars
    /\ [][\A t \in Threads :
             ReleaseReturns(t) =>
                 /\ (deleted' = deleted + 1) <=> (in_use[t] = 0)
                 /\ deleted' \in {deleted, deleted + 1}
                 /\ in_use[t] # 0 =>
                        /\ rel_errno'[t] = "MPI_SUCCESS"
                        /\ UNCHANGED <<ref_count, held, deleted, del_errno>>
                 /\ in_use[t] = 0 =>
                        /\ del_errno' # "none"
                        /\ rel_errno'[t] = del_errno']_vars

\* the release that deleted the communicator returned the error that
\* MPIR_Comm_delete_internal reported, the other release returned success
DeleteErrorReturned ==
    /\ deleted = 1
    /\ del_errno = "MPI_ERR_OTHER"
    /\ \A t \in Threads : relpc[t] = "idle"
    /\ \E t \in Threads : rel_errno[t] = "MPI_ERR_OTHER"
    /\ \E t \in Threads : rel_errno[t] = "MPI_SUCCESS" /\ held[t] = 0


(***************************************************************************)
(* Response to the stop flag, lines 451-456 and 618-619.                   *)
(***************************************************************************)
\* C22: once the stop flag is set a worker begins at most one more
\* MPID_Progress_test: the one whose loop test it had passed before the
\* store; after such a test it only yields, reads the flag as set and goes
\* on to MPID_Progress_end, and with the flag set no loop test sends a
\* worker into another iteration.
AtMostOneTestAfterStop ==
    /\ [](\A i \in Workers :
            /\ tests_after_stop[i] <= 1
            /\ tests_after_stop[i] = 1 =>
                   workers[i] \in {"yield", "reacquire", "check", "end", "exit",
                                   "done", "joined"})
    /\ [][async_done = 1 =>
             \A i \in Workers : workers'[i] = "test" => workers[i] = "test"]_vars

\* finalize has joined a worker that ran one test after the flag was set
OneLateTestThenJoined ==
    /\ mainpc = "idle"
    /\ async_done = 1
    /\ progress_thread_id \in Workers
    /\ workers[progress_thread_id] = "joined"
    /\ tests_after_stop[progress_thread_id] = 1


(***************************************************************************)
(* The initialized flag and the join, lines 441-443 and 611-660.           *)
(***************************************************************************)
\* the thread the handle names was created and has not been joined
HandleJoinable ==
    /\ progress_thread_id \in Workers
    /\ workers[progress_thread_id] \notin {"none", "joined"}

\* C23: MPIR_async_thread_initialized is 1 only while the thread of the
\* handle is created and not yet joined, and whenever finalize is in its
\* join that thread is created and not yet joined: no join of a thread
\* that does not exist, no second join of the same thread.
JoinOnlyLiveThread ==
    /\ MPIR_async_thread_initialized = 1 => HandleJoinable
    /\ mainpc = "join" => HandleJoinable


(***************************************************************************)
(* The index into the affinity table, lines 556-571 and 586-594.           *)
(***************************************************************************)
\* C24: the index that picks this thread's processor id lies inside the
\* affinity table: 0 <= affinity_idx < threads_per_node, with the clique
\* override and without it, for a world and a node communicator whose
\* ranks lie in [0, local_size); so a table the parse filled has a slot at
\* the index and a pinned thread holds the value of one of its slots.
AffinityIndexInTable ==
    init_called =>
        /\ 0 <= affinity_idx
        /\ affinity_idx < threads_per_node
        /\ parsed.mpi_errno = "MPI_SUCCESS" =>
               affinity_idx + 1 \in DOMAIN parsed.thread_affinity
        /\ (parsed.mpi_errno = "MPI_SUCCESS" /\ progress_thread_id \in Workers
                /\ pinned # 0 - 1) =>
               \E k \in DOMAIN parsed.thread_affinity :
                   pinned = parsed.thread_affinity[k]

\* with the clique override the last rank of a world larger than its node
\* communicator is pinned through the last slot of the table
LastRankUsesLastSlot ==
    /\ Pinned
    /\ CliqueOverride
    /\ comm_world.node_comm.present
    /\ comm_world.node_comm.local_size < comm_world.local_size
    /\ affinity_idx = comm_world.local_size - 1
    /\ affinity_idx + 1 = Len(parsed.thread_affinity)
    /\ affinity_idx > comm_world.node_comm.rank

====
